---- MODULE Spec2Model ----
(***************************************************************************)
(* Backup manager of the maintenance management system                     *)
(* (src/backup_manager.py): the live database file, the live document      *)
(* tree, the configuration file, the two safety copies and the artifacts   *)
(* under backup_root, with create / list / restore / delete / cleanup.     *)
(*                                                                         *)
(* File contents are abstract values: Absent (no such file), Truncated     *)
(* (a file an interrupted write left behind) and 1..MaxContent (complete   *)
(* byte strings).  Time is the wall clock in whole seconds, the            *)
(* resolution of the "%Y%m%d_%H%M%S" timestamp in artifact names.          *)
(***************************************************************************)
EXTENDS Integers, Sequences, FiniteSets, TLC

\* ---------------------------------------------------------------- bounds
MaxContent == 2
MaxClock == 1
MaxBackups == 3
MaxKeep == 2
MaxUnreadable == 1
MaxMantissa == 12
MaxExponent == 6

\* ------------------------------------------------------- value universes
Absent == -1
Truncated == 0
Contents == 1..MaxContent          \* complete, non-empty byte strings
DocNames == {"a.pdf", "b.pdf"}     \* files below the document root
BackupNames == {""}                \* backup_name arguments ("" is None)
DbDirNames == {"data", "database"} \* name of database_path.parent
DocRootNames == {"documents", "docs"} \* name of the document root directory

NoPath == <<"", 0, "">>
NoDocs == [d \in DocNames |-> Absent]
NoDbFile == [content |-> Absent, mtime |-> 0]

VARIABLES
  config,      \* [dbDir, docRoot]: the configured locations (fixed)
  clock,       \* datetime.now(), in seconds
  db,          \* file at database_path: [content, mtime]
  strayDb,     \* file at database_path.parent.parent/database/<db name>
               \* when that is not database_path itself
  docs,        \* live document tree: DocNames -> content
  cfgFile,     \* ./config.ini
  beforeRestore, \* <stem>_before_restore.db next to the live database
  safetyBackup,  \* <stem>_safety_backup.db next to the live database
  backups,     \* files under backup_root: path -> artifact
  last         \* what the last BackupManager call was given and returned

vars == <<config, clock, db, strayDb, docs, cfgFile, beforeRestore,
          safetyBackup, backups, last>>

env == <<config, clock, db, strayDb, docs, cfgFile, beforeRestore,
         safetyBackup>>

\* ------------------------------------------------------------- artifacts
\* An artifact path is <<name, timestamp, extension>>, the three parts of
\* "{name}_{timestamp}.{ext}".  An artifact records its bytes (raw for a
\* .db copy; dbEntry / docEntries / cfgEntry for a .zip archive), its
\* st_mtime, and history the formulas refer to: born (the clock when the
\* create call that last wrote it ran), returned (that call returned this
\* path) and, when it did, srcDb and srcDocs (the live database and the
\* documents that call was asked to save).
Files == DOMAIN backups

Ext(p) == p[3]

IsZip(p) == Ext(p) = "zip"

IsDb(p) == Ext(p) = "db"

\* datetime values are whole seconds; NoTime stands for None.
NoTime == -1

\* A byte count is written num * 1024^exp, with 0 <= num < 1024 * 1024, so
\* that counts up to the PB tier and beyond stay within the integers of
\* the model checker; exp goes below 0 when the count is divided.
Size(num, exp) == [num |-> num, exp |-> exp]

NoSize == Size(0, 0)

\* A size string "<number> <unit>": the number is digits * 1024^scale
\* shifted right by decimals decimal places.
Text(digits, scale, decimals, unit) ==
  [digits |-> digits, scale |-> scale, decimals |-> decimals,
   unit |-> unit]

\* The literal '0 B' of line 249.
ZeroText == Text(0, 0, 0, "B")

\* The dictionary get_backup_statistics returns for no backups: lines
\* 247-253.
NoStats ==
  [total_backups |-> 0, total_size |-> ZeroText, total_size_bytes |-> 0,
   oldest_backup |-> NoTime, newest_backup |-> NoTime]

\* What a call returned (ok, msg, path, count) and what it was given: the
\* file it worked on (target) and its two flags (a1, a2).  The other
\* fields record what happened inside the call: at is the step that
\* raised ("none" when none did); for cleanup_old_backups keep is
\* keep_count, listed the number of records list_backups gave it, failed
\* the files whose unlink raised, and a2 tells that stat() raised on some
\* file during the listing.  records is the list list_backups or
\* export_backup_info returned, stats the dictionary
\* get_backup_statistics or export_backup_info returned, and raised
\* tells that the call returned nothing: an exception left it.  size and
\* text are the argument and the value of a _get_readable_size call.
Result(op, ok, msg, path, target, count, a1, a2) ==
  [op |-> op, ok |-> ok, msg |-> msg, path |-> path, target |-> target,
   count |-> count, a1 |-> a1, a2 |-> a2, keep |-> 0, listed |-> 0,
   at |-> "none", failed |-> {}, records |-> <<>>, stats |-> NoStats,
   raised |-> FALSE, size |-> NoSize, text |-> ZeroText]

\* No BackupManager call has returned since the environment last moved.
Idle == Result("", FALSE, "", NoPath, NoPath, 0, FALSE, FALSE)

\* Function update that also extends the domain.
Put(f, k, v) == [x \in (DOMAIN f) \cup {k} |-> IF x = k THEN v ELSE f[x]]

\* Variant of Drop: nothing is removed.
Drop_Nothing(f, K) == f

Drop(f, K) == [x \in (DOMAIN f) \ K |-> f[x]]

\* shutil.copy2(src, dst): the bytes and the modification time of src.
copy2(src) == [content |-> src.content, mtime |-> src.mtime]

\* ------------------------------------------------------- create_backup
\* lines 40-45: "{backup_name or 'backup'}_{timestamp}.zip"
backup_filename(backup_name, timestamp) ==
  <<IF backup_name # "" THEN backup_name ELSE "backup", timestamp, "zip">>

\* lines 87-88: "db_backup_{timestamp}.db"
db_backup_filename(timestamp) == <<"db_backup", timestamp, "db">>

\* The archive as ZipFile(backup_path, 'w') leaves it when the with-block
\* is left after the given entries were written.  The database entry is
\* "database/<db name>" (line 53); document entries are named relative to
\* the parent of the document root (line 62), so they start with the
\* document root's own name, docPrefix.  unfinished tells that the file
\* is still being written (an archive has no central directory before it
\* is closed), held that a restore_backup call has it open for reading.
Archive(dbEntry, docEntries, cfgEntry, ok, incDocs) ==
  [raw |-> Absent, dbEntry |-> dbEntry, docEntries |-> docEntries,
   cfgEntry |-> cfgEntry, mtime |-> clock, born |-> clock,
   returned |-> ok,
   srcDb |-> IF ok THEN db.content ELSE Absent,
   srcDocs |-> IF ok /\ incDocs THEN docs ELSE NoDocs,
   docPrefix |-> config.docRoot, unfinished |-> FALSE, held |-> FALSE]

\* Variant of WalkDocuments: the documents are always added.
WalkDocuments_Always(include_documents) == docs

\* lines 58-63: one entry per file below the document root.
WalkDocuments(include_documents) ==
  IF include_documents THEN docs ELSE NoDocs

\* lines 66-69
ConfigEntry(include_config) ==
  IF include_config THEN cfgFile ELSE Absent

\* A file in a subdirectory of backup_root, and the test that a file is
\* directly inside backup_root (what the patterns "*.zip" and "*.db" of
\* line 117 can match).
SubdirFile == <<"archive/backup", 0, "zip">>

Direct(p) == p # SubdirFile

Artifacts == {p \in Files : Direct(p) /\ Ext(p) \in {"zip", "db"}}

CanCreate(p) == p \in Files \/ Cardinality(Artifacts) < MaxBackups

\* create_backup, no I/O error: lines 38-74.
CreateBackupOk(include_documents, include_config, backup_name) ==
  LET p == backup_filename(backup_name, clock) IN
  /\ CanCreate(p)
  /\ db.content # Absent
  /\ backups' = Put(backups, p,
        Archive(db.content, WalkDocuments(include_documents),
                ConfigEntry(include_config), TRUE, include_documents))
  /\ last' = Result("create_backup", TRUE, "Backup created successfully",
                    p, p, 0, include_documents, include_config)
  /\ UNCHANGED env

\* create_backup with the database missing: lines 50-55.  The archive has
\* been opened for writing before the check, and leaving the with-block
\* closes it as an archive without entries.
CreateBackupNoDatabase(include_documents, include_config, backup_name) ==
  LET p == backup_filename(backup_name, clock) IN
  /\ CanCreate(p)
  /\ db.content = Absent
  /\ backups' = Put(backups, p,
        Archive(Absent, NoDocs, Absent, FALSE, include_documents))
  /\ last' = Result("create_backup", FALSE, "Database file not found",
                    NoPath, p, 0, include_documents, include_config)
  /\ UNCHANGED env

\* create_backup when ZipFile(backup_path, 'w') itself raises: line 50, 76.
CreateBackupOpenFails(include_documents, include_config, backup_name) ==
  /\ backups' = backups
  /\ last' = [Result("create_backup", FALSE, "Backup failed", NoPath,
                     backup_filename(backup_name, clock), 0,
                     include_documents, include_config)
                EXCEPT !.at = "open"]
  /\ UNCHANGED env

\* The entry zipf.write leaves when it raises: none (the source could not
\* be opened) or a truncated one (the copy broke off).
BrokenEntry == {Absent, Truncated}

\* The steps of create_backup at which zipf.write can raise: on the
\* database (line 53), on a document (line 63), on config.ini (line 69).
WriteSteps(include_documents, include_config) ==
  {"db"} \cup (IF \E d \in DocNames : WalkDocuments(include_documents)[d] # Absent
                 THEN {"doc"} ELSE {})
         \cup (IF ConfigEntry(include_config) # Absent THEN {"cfg"} ELSE {})

\* The archives a create_backup whose zipf.write raises at step at can
\* leave: the entries written so far, and for the file being written the
\* entry in broken.  Documents are written in directory order, so any
\* subset of the others may precede the one that fails.
PartialArchives(include_documents, include_config, at, broken) ==
  LET allDocs == WalkDocuments(include_documents)
      present == {d \in DocNames : allDocs[d] # Absent}
  IN
  IF at = "db"
    THEN {Archive(broken, NoDocs, Absent, FALSE, include_documents)}
  ELSE IF at = "doc"
    THEN {Archive(db.content,
                  [d \in DocNames |->
                     IF d \in done THEN allDocs[d]
                     ELSE IF d = f THEN broken ELSE Absent],
                  Absent, FALSE, include_documents) :
            <<f, done>> \in {x \in present \X SUBSET present :
                               x[1] \notin x[2]}}
  ELSE {Archive(db.content, allDocs, broken, FALSE, include_documents)}

\* create_backup when zipf.write raises: lines 50-69, 76-77.  The entries
\* written so far stay in the archive, which the with-block closes.
CreateBackupWriteFails(include_documents, include_config, backup_name) ==
  LET p == backup_filename(backup_name, clock) IN
  /\ CanCreate(p)
  /\ db.content # Absent
  /\ \E at \in WriteSteps(include_documents, include_config),
        broken \in BrokenEntry :
       \E a \in PartialArchives(include_documents, include_config, at,
                                broken) :
         /\ backups' = Put(backups, p, a)
         /\ last' = [Result("create_backup", FALSE, "Backup failed",
                            NoPath, p, 0, include_documents,
                            include_config) EXCEPT !.at = at]
  /\ UNCHANGED env

\* create_backup, lines 26-77, for arguments drawn from the given sets.
create_backup(IncludeDocuments, IncludeConfig) ==
  \E include_documents \in IncludeDocuments,
     include_config \in IncludeConfig, backup_name \in BackupNames :
    \/ CreateBackupOk(include_documents, include_config, backup_name)
    \/ CreateBackupNoDatabase(include_documents, include_config, backup_name)
    \/ CreateBackupOpenFails(include_documents, include_config, backup_name)
    \/ CreateBackupWriteFails(include_documents, include_config, backup_name)

\* ------------------------------------------ create_database_only_backup
\* The artifact shutil.copy2 leaves at backup_path: line 95.
DbArtifact(file, ok) ==
  [raw |-> file.content, dbEntry |-> Absent, docEntries |-> NoDocs,
   cfgEntry |-> Absent, mtime |-> file.mtime, born |-> clock,
   returned |-> ok,
   srcDb |-> IF ok THEN db.content ELSE Absent,
   srcDocs |-> NoDocs, docPrefix |-> "", unfinished |-> FALSE,
   held |-> FALSE]

\* lines 86-99, no I/O error.
CreateDbOnlyOk ==
  LET p == db_backup_filename(clock) IN
  /\ CanCreate(p)
  /\ db.content # Absent
  /\ backups' = Put(backups, p, DbArtifact(copy2(db), TRUE))
  /\ last' = Result("create_database_only_backup", TRUE,
                    "Database backup created", p, p, 0, FALSE, FALSE)
  /\ UNCHANGED env

\* lines 91-92: the check comes before anything is written.
CreateDbOnlyNoDatabase ==
  LET p == db_backup_filename(clock) IN
  /\ db.content = Absent
  /\ backups' = backups
  /\ last' = Result("create_database_only_backup", FALSE,
                    "Database file not found", NoPath, p, 0, FALSE, FALSE)
  /\ UNCHANGED env

\* lines 95, 101-102: copy2 raises, before the destination was opened
\* (nothing written) or while copying (a truncated file, written now).
CreateDbOnlyCopyFails ==
  LET p == db_backup_filename(clock) IN
  /\ CanCreate(p)
  /\ db.content # Absent
  /\ backups' \in {backups,
                    Put(backups, p,
                        DbArtifact([content |-> Truncated, mtime |-> clock],
                                   FALSE))}
  /\ last' = [Result("create_database_only_backup", FALSE,
                     "Database backup failed", NoPath, p, 0, FALSE, FALSE)
                EXCEPT !.at = "copy"]
  /\ UNCHANGED env

create_database_only_backup ==
  \/ CreateDbOnlyOk
  \/ CreateDbOnlyNoDatabase
  \/ CreateDbOnlyCopyFails

\* --------------------------------------------------- _get_readable_size
\* Variant of Below1024: the comparison is <=.
Below1024_Inclusive(v) ==
  v.num = 0 \/ v.exp < 0 \/ (v.exp = 0 /\ v.num <= 1024)

\* line 300: size_bytes < 1024.0
Below1024(v) == v.num = 0 \/ v.exp < 0 \/ (v.exp = 0 /\ v.num < 1024)

\* a / d to the nearest integer, a tie going to the even one, as the
\* format ".2f" rounds the binary value it is given.
RoundHalfEven(a, d) ==
  LET q == a \div d
      r == a % d
  IN IF 2 * r < d THEN q
     ELSE IF 2 * r > d THEN q + 1
     ELSE IF q % 2 = 0 THEN q ELSE q + 1

\* lines 301, 303: f"{size_bytes:.2f} {unit}".  A count that was divided
\* is a binary fraction, held exactly by the float.
Formatted(v, unit) ==
  IF v.exp >= 0 THEN Text(100 * v.num, v.exp, 2, unit)
  ELSE Text(RoundHalfEven(100 * v.num, 1024), 0, 2, unit)

\* lines 299-303: the loop over the units, then PB.
RECURSIVE readable_size(_, _)
readable_size(v, units) ==
  IF units = <<>> THEN Formatted(v, "PB")
  ELSE IF Below1024(v) THEN Formatted(v, Head(units))
  ELSE readable_size(Size(v.num, v.exp - 1), Tail(units))

\* _get_readable_size, lines 297-303.
_get_readable_size(size_bytes) ==
  readable_size(size_bytes, <<"B", "KB", "MB", "GB", "TB">>)

\* The byte counts _get_readable_size is tried on.
Mantissas ==
  (0..MaxMantissa)
    \cup {512, 1023, 1024, 1025, 1152, 2047, 10240, 1047552, 1048575}

Sizes ==
  {Size(m, e) : m \in Mantissas \ {0}, e \in 0..MaxExponent}
    \cup {Size(0, 0)}

\* One call of _get_readable_size.
GetReadableSize ==
  /\ \E size_bytes \in Sizes :
       last' = [Result("_get_readable_size", TRUE, "", NoPath, NoPath, 0,
                       FALSE, FALSE)
                  EXCEPT !.size = size_bytes,
                         !.text = _get_readable_size(size_bytes)]
  /\ UNCHANGED <<config, clock, db, strayDb, docs, cfgFile, beforeRestore,
                 safetyBackup, backups>>

\* --------------------------------------------------------- list_backups
\* The size of a stored byte string: nothing for no file, and more for a
\* complete one than for a truncated one.
EntrySize(c) == IF c = Absent THEN 0 ELSE c + 1

\* stat.st_size of a file under backup_root: the bytes of a plain file,
\* or for an archive its directory and its entries.
st_size(a) ==
  IF a.raw # Absent THEN EntrySize(a.raw)
  ELSE 1 + EntrySize(a.dbEntry) + EntrySize(a.cfgEntry)
         + EntrySize(a.docEntries["a.pdf"]) + EntrySize(a.docEntries["b.pdf"])

\* line 127: datetime.fromtimestamp(stat.st_mtime)
created(p) == backups[p].mtime

\* The record list_backups builds for one file: lines 121-129.
Record(p) ==
  [path |-> p, size |-> _get_readable_size(Size(st_size(backups[p]), 0)),
   size_bytes |-> st_size(backups[p]),
   created |-> created(p),
   type |-> IF IsZip(p) THEN "Full Backup" ELSE "Database Only"]

\* The orders in which a directory scan can give the files of a set.
RECURSIVE Orders(_)
Orders(S) ==
  IF S = {} THEN {<<>>}
  ELSE UNION {{<<x>> \o t : t \in Orders(S \ {x})} : x \in S}

\* Variant of backup_files: the patterns also match in subdirectories.
backup_files_Recursive(unreadable) ==
  {z \o d : z \in Orders({p \in Files \ unreadable : IsZip(p)}),
            d \in Orders({p \in Files \ unreadable : IsDb(p)})}

\* lines 117-131: glob("*.zip") + glob("*.db"), each in directory order,
\* without the files whose stat() raises.
backup_files(unreadable) ==
  {z \o d :
     z \in Orders({p \in Files \ unreadable : Direct(p) /\ IsZip(p)}),
     d \in Orders({p \in Files \ unreadable : Direct(p) /\ IsDb(p)})}

\* One step of the stable sort: p goes behind every path already placed
\* whose record is at least as new, so equal keys keep the scan's order.
InsertNewestFirst(sorted, p) ==
  LET k == Cardinality({i \in 1..Len(sorted) :
                          created(sorted[i]) >= created(p)})
  IN SubSeq(sorted, 1, k) \o <<p>> \o SubSeq(sorted, k + 1, Len(sorted))

\* line 134: backups.sort(key=created, reverse=True), a stable sort.
RECURSIVE sort_newest_first(_)
sort_newest_first(s) ==
  IF s = <<>> THEN <<>>
  ELSE InsertNewestFirst(sort_newest_first(SubSeq(s, 1, Len(s) - 1)),
                         s[Len(s)])

\* list_backups, lines 111-136: the lists of paths (one per record) it can
\* return when stat() raises on the files in unreadable.
list_backups(unreadable) ==
  {sort_newest_first(s) : s \in backup_files(unreadable)}

\* The sets of files on which stat() can raise during one scan.
Unreadable == {U \in SUBSET Artifacts : Cardinality(U) <= MaxUnreadable}

\* What one call of list_backups can give its caller: a list, and whether
\* stat() raised on some file while it was built.
Scans ==
  UNION {{<<listing, unreadable # {}>> :
            listing \in list_backups(unreadable)} :
         unreadable \in Unreadable}

\* The list of dictionaries for a list of paths: lines 122-129.
Records(listing) == [i \in 1..Len(listing) |-> Record(listing[i])]

\* What a call leaves when an exception raised while backup_root is
\* scanned (exists() in line 113, glob() in line 117) leaves it too: no
\* handler encloses these lines in list_backups.
ScanRaised(op) ==
  [Result(op, FALSE, "", NoPath, NoPath, 0, FALSE, FALSE)
     EXCEPT !.at = "scan", !.raised = TRUE]

\* list_backups as a call: lines 111-136.
ListBackups ==
  /\ \/ last' = ScanRaised("list_backups")
     \/ \E scan \in Scans :
          last' = [Result("list_backups", TRUE, "", NoPath, NoPath, 0,
                          FALSE, scan[2])
                     EXCEPT !.records = Records(scan[1])]
  /\ UNCHANGED <<env, backups>>

\* ------------------------------------------------ get_backup_statistics
\* line 255: sum(b['size_bytes'] for b in backups)
RECURSIVE total_size_bytes(_)
total_size_bytes(records) ==
  IF records = <<>> THEN 0
  ELSE records[1].size_bytes + total_size_bytes(Tail(records))

\* Variant of total_backups: the number of archives only.
total_backups_ArchivesOnly(records) ==
  Cardinality({i \in 1..Len(records) : records[i].type = "Full Backup"})

\* line 258: len(backups)
total_backups(records) == Len(records)

\* Variant of newest_backup: the last record of the list.
newest_backup_Last(records) == records[Len(records)].created

\* line 262: backups[0]['created']
newest_backup(records) == records[1].created

\* line 261: backups[-1]['created']
oldest_backup(records) == records[Len(records)].created

\* lines 246-263, on the list that list_backups returned in line 244.
get_backup_statistics(records) ==
  IF records = <<>> THEN NoStats
  ELSE [total_backups |-> total_backups(records),
        total_size |-> _get_readable_size(
                         Size(total_size_bytes(records), 0)),
        total_size_bytes |-> total_size_bytes(records),
        oldest_backup |-> oldest_backup(records),
        newest_backup |-> newest_backup(records)]

\* get_backup_statistics as a call: lines 244-263.  The records it was
\* computed from are not returned; they are kept in records.
GetBackupStatistics ==
  /\ \/ last' = ScanRaised("get_backup_statistics")
     \/ \E scan \in Scans :
          last' = [Result("get_backup_statistics", TRUE, "", NoPath,
                          NoPath, 0, FALSE, scan[2])
                     EXCEPT !.records = Records(scan[1]),
                            !.stats = get_backup_statistics(
                                        Records(scan[1]))]
  /\ UNCHANGED <<env, backups>>

\* --------------------------------------------------- export_backup_info
\* lines 312-321: backup_root is scanned twice, once by list_backups in
\* line 312 and once by get_backup_statistics in line 313.  The files
\* whose stat() raises are the same in both scans of the one call.
ExportBackupInfo ==
  /\ \/ last' = ScanRaised("export_backup_info")
     \/ \E unreadable \in Unreadable :
          \E first \in list_backups(unreadable),
             second \in list_backups(unreadable) :
            last' = [Result("export_backup_info", TRUE, "", NoPath,
                            NoPath, 0, FALSE, unreadable # {})
                       EXCEPT !.records = Records(first),
                              !.stats = get_backup_statistics(
                                          Records(second))]
  /\ UNCHANGED <<env, backups>>

\* ------------------------------------------------------- restore_backup
\* Variant of SafetyCopy: a safety copy that exists is kept.
SafetyCopy_KeepFirst(old) ==
  IF old # Absent THEN old
  ELSE IF db.content # Absent THEN db.content ELSE old

\* Variant of SafetyCopy: no safety copy is written.
SafetyCopy_Skipped(old) == old

\* lines 173-175 and 189-191: the safety copy, taken only when the live
\* database exists; old is what the safety-copy file held before.
SafetyCopy(old) == IF db.content # Absent THEN db.content ELSE old

\* What an interrupted write can leave at a destination that held old.
Interrupted(old) == {old, Truncated}

\* lines 153-154
RestoreNotFound(backup_path, restore_documents, restore_config) ==
  /\ backup_path \notin Files
  /\ last' = Result("restore_backup", FALSE, "Backup file not found",
                    NoPath, backup_path, 0, restore_documents,
                    restore_config)
  /\ UNCHANGED <<env, backups>>

\* Variant of RestoreInvalidFormat: the safety copy is taken before the
\* extension is looked at.
RestoreInvalidFormat_SafetyFirst(backup_path, restore_documents, restore_config) ==
  /\ backup_path \in Files
  /\ ~IsDb(backup_path) /\ ~IsZip(backup_path)
  /\ beforeRestore' = SafetyCopy(beforeRestore)
  /\ last' = Result("restore_backup", FALSE, "Invalid backup file format",
                    NoPath, backup_path, 0, restore_documents,
                    restore_config)
  /\ UNCHANGED <<config, clock, db, strayDb, docs, cfgFile, safetyBackup,
                 backups>>

\* lines 157-164
RestoreInvalidFormat(backup_path, restore_documents, restore_config) ==
  /\ backup_path \in Files
  /\ ~IsDb(backup_path) /\ ~IsZip(backup_path)
  /\ last' = Result("restore_backup", FALSE, "Invalid backup file format",
                    NoPath, backup_path, 0, restore_documents,
                    restore_config)
  /\ UNCHANGED <<env, backups>>

\* Variant of RestoredDatabase: the copy in line 178 takes the live
\* database, not the artifact, as its source.
RestoredDatabase_FromLive(backup_file) == copy2(db)

\* line 178: shutil.copy2(backup_file, self.database_path).
RestoredDatabase(backup_file) ==
  copy2([content |-> backups[backup_file].raw,
         mtime |-> backups[backup_file].mtime])

\* Variant of LiveDbAfterDbRestore: an exception in the safety copy is
\* swallowed and line 178 runs all the same.
LiveDbAfterDbRestore_Swallowed(backup_file, at) ==
  IF at = "copy" THEN {db, [content |-> Truncated, mtime |-> clock]}
  ELSE {RestoredDatabase(backup_file)}

\* The live database file _restore_database_only can leave, lines 171-183:
\* an exception in the safety copy leaves the function before line 178.
LiveDbAfterDbRestore(backup_file, at) ==
  IF at = "safety" THEN {db}
  ELSE IF at = "copy" THEN {db, [content |-> Truncated, mtime |-> clock]}
  ELSE {RestoredDatabase(backup_file)}

\* _restore_database_only, lines 169-183.  at is the step that raises:
\* "safety" (line 175), "copy" (line 178) or "none".
_restore_database_only(backup_file, at, rd, rc) ==
  /\ at \in {"none", "safety", "copy"}
  /\ at = "safety" => db.content # Absent
  /\ IF at = "safety"
       THEN beforeRestore' \in Interrupted(beforeRestore)
       ELSE beforeRestore' = SafetyCopy(beforeRestore)
  /\ db' \in LiveDbAfterDbRestore(backup_file, at)
  /\ last' = [Result("restore_backup", at = "none",
                     IF at = "none" THEN "Database restored successfully"
                     ELSE "Database restore failed",
                     NoPath, backup_file, 0, rd, rc) EXCEPT !.at = at]
  /\ UNCHANGED <<config, clock, strayDb, docs, cfgFile, safetyBackup,
                 backups>>

\* line 197: the database entry "database/<db name>" is extracted below
\* database_path.parent.parent, which is the live database file only when
\* the directory holding the live database is itself named "database".
ExtractsInPlace == config.dbDir = "database"

\* Variant of DocEntriesRestored: restore_documents is not looked at.
DocEntriesRestored_Always(backup_file, restore_documents) ==
  IF backups[backup_file].docPrefix = "documents"
    THEN {d \in DocNames : backups[backup_file].docEntries[d] # Absent}
    ELSE {}

\* line 201, 203: the entries starting with "documents/" are extracted
\* below the parent of the document root.
DocEntriesRestored(backup_file, restore_documents) ==
  IF restore_documents /\ backups[backup_file].docPrefix = "documents"
    THEN {d \in DocNames : backups[backup_file].docEntries[d] # Absent}
    ELSE {}

\* Lines 193-212 of _restore_full_backup: the archive is opened and its
\* entries are extracted.  at is the step that raises, as below; an
\* archive that is still being written cannot be opened (it has no
\* central directory: zipfile.BadZipFile in line 193).
ExtractArchive(backup_file, restore_documents, restore_config, at) ==
  LET a == backups[backup_file]
      sel == DocEntriesRestored(backup_file, restore_documents)
      hasCfg == restore_config /\ a.cfgEntry # Absent
      pastDb == at \notin {"safety", "open", "db"}
      pastDocs == at \in {"cfg", "none"}
  IN
  /\ at \in {"none", "safety", "open", "db", "doc", "cfg"}
  /\ a.unfinished => at \in {"safety", "open"}
  /\ at = "db" => a.dbEntry # Absent
  /\ at = "doc" => sel # {}
  /\ at = "cfg" => hasCfg
  /\ \E hit \in BOOLEAN :
       LET written ==
             IF pastDb /\ a.dbEntry # Absent THEN a.dbEntry
             ELSE IF at = "db" /\ hit THEN Truncated
             ELSE Absent
       IN IF written = Absent
            THEN db' = db /\ strayDb' = strayDb
            ELSE IF ExtractsInPlace
              THEN db' = [content |-> written, mtime |-> clock]
                   /\ strayDb' = strayDb
              ELSE db' = db /\ strayDb' = written
  /\ IF pastDocs
       THEN docs' = [d \in DocNames |->
                       IF d \in sel THEN a.docEntries[d] ELSE docs[d]]
       ELSE IF at = "doc"
         THEN \E f \in sel : \E done \in SUBSET (sel \ {f}) :
                \E left \in Interrupted(docs[f]) :
                  docs' = [d \in DocNames |->
                             IF d \in done THEN a.docEntries[d]
                             ELSE IF d = f THEN left ELSE docs[d]]
         ELSE docs' = docs
  /\ IF at = "none" /\ hasCfg
       THEN cfgFile' = a.cfgEntry
       ELSE IF at = "cfg" THEN cfgFile' \in Interrupted(cfgFile)
       ELSE cfgFile' = cfgFile
  /\ last' = [Result("restore_backup", at = "none",
                     IF at = "none" THEN "System restored successfully"
                     ELSE "Full restore failed",
                     NoPath, backup_file, 0, restore_documents,
                     restore_config) EXCEPT !.at = at]

\* _restore_full_backup, lines 185-212.  at is the step that raises:
\* "safety" (line 191), "open" (line 193), "db" (line 197), "doc"
\* (line 203), "cfg" (line 207) or "none".
_restore_full_backup(backup_file, restore_documents, restore_config, at) ==
  /\ at = "safety" => db.content # Absent
  /\ IF at # "safety"
       THEN safetyBackup' = SafetyCopy(safetyBackup)
       ELSE safetyBackup' \in Interrupted(safetyBackup)
  /\ ExtractArchive(backup_file, restore_documents, restore_config, at)
  /\ UNCHANGED <<config, clock, beforeRestore, backups>>

\* The paths a caller can name: the files under backup_root and the names
\* a create call could have produced so far.
PathArgs ==
  Files \cup {backup_filename(n, t) : n \in BackupNames, t \in 0..clock}
        \cup {db_backup_filename(t) : t \in 0..clock}

\* restore_backup, lines 138-167, for flags drawn from the given sets.
restore_backup(RestoreDocuments, RestoreConfig) ==
  \E backup_path \in PathArgs, restore_documents \in RestoreDocuments,
     restore_config \in RestoreConfig :
    \/ RestoreNotFound(backup_path, restore_documents, restore_config)
    \/ RestoreInvalidFormat(backup_path, restore_documents, restore_config)
    \/ /\ backup_path \in Files /\ IsDb(backup_path)
       /\ \E at \in {"none", "safety", "copy"} :
            _restore_database_only(backup_path, at, restore_documents,
                                   restore_config)
    \/ /\ backup_path \in Files /\ IsZip(backup_path)
       /\ \E at \in {"none", "safety", "open", "db", "doc", "cfg"} :
            _restore_full_backup(backup_path, restore_documents,
                                 restore_config, at)

\* -------------------------------------------------------- delete_backup
\* self.database_path as a path argument: a file that is not under
\* backup_root.
DatabasePath == <<"maintenance_management", NoTime, "db">>

\* Path(p).exists() for the paths the model tells apart.
Exists(p) == p \in Files \/ (p = DatabasePath /\ db.content # Absent)

\* lines 224-235; unlinkFails: backup_file.unlink() raises.  The path is
\* used as it is given (line 225): nothing relates it to backup_root.
DeleteBackup(backup_path, unlinkFails) ==
  /\ IF ~Exists(backup_path)
       THEN /\ backups' = backups /\ db' = db
            /\ last' = Result("delete_backup", FALSE,
                   "Backup file not found", NoPath, backup_path, 0,
                   FALSE, FALSE)
       ELSE IF unlinkFails
         THEN /\ backups' = backups /\ db' = db
              /\ last' = [Result("delete_backup", FALSE, "Delete failed",
                      NoPath, backup_path, 0, FALSE, FALSE)
                        EXCEPT !.at = "unlink"]
         ELSE /\ IF backup_path = DatabasePath
                   THEN backups' = backups /\ db' = NoDbFile
                   ELSE backups' = Drop(backups, {backup_path}) /\ db' = db
              /\ last' = Result("delete_backup", TRUE, "Backup deleted",
                     NoPath, backup_path, 0, FALSE, FALSE)
  /\ UNCHANGED <<config, clock, strayDb, docs, cfgFile, beforeRestore,
                 safetyBackup>>

\* delete_backup, lines 214-235, for path arguments drawn from Paths.
delete_backup(Paths) ==
  \E backup_path \in Paths :
    \E unlinkFails \in IF Exists(backup_path) THEN BOOLEAN ELSE {FALSE} :
      DeleteBackup(backup_path, unlinkFails)

\* -------------------------------------------------- cleanup_old_backups
\* Variant of backups_to_delete: backups[:keep_count], the wrong end of
\* the list.
backups_to_delete_Head(listing, keep_count) ==
  {listing[i] : i \in {k \in 1..Len(listing) : k <= keep_count}}

\* line 282: backups[keep_count:]
backups_to_delete(listing, keep_count) ==
  {listing[i] : i \in (keep_count + 1)..Len(listing)}

\* Variant of deleted_count: the counter also moves when unlink raises.
deleted_count_Attempts(to_delete, failed) == Cardinality(to_delete)

\* lines 285-290: one more for every unlink that did not raise.
deleted_count(to_delete, failed) == Cardinality(to_delete \ failed)

\* lines 275-292.  listing is what list_backups returned, skipped tells
\* that stat() raised on some file, failed are the files whose unlink
\* raises.
CleanupOldBackups(keep_count, listing, skipped, failed) ==
  /\ IF Len(listing) <= keep_count
       THEN /\ backups' = backups
            /\ last' = [Result("cleanup_old_backups", TRUE,
                               "No cleanup needed", NoPath, NoPath, 0,
                               FALSE, skipped)
                          EXCEPT !.keep = keep_count,
                                 !.listed = Len(listing)]
       ELSE LET to_delete == backups_to_delete(listing, keep_count) IN
            /\ backups' = Drop(backups, to_delete \ failed)
            /\ last' = [Result("cleanup_old_backups", TRUE, "Deleted",
                               NoPath, NoPath,
                               deleted_count(to_delete, failed),
                               FALSE, skipped)
                          EXCEPT !.keep = keep_count,
                                 !.listed = Len(listing),
                                 !.failed = failed,
                                 !.at = IF failed = {} THEN "none"
                                        ELSE "unlink"]
  /\ UNCHANGED env

cleanup_old_backups ==
  \E keep_count \in 1..MaxKeep, scan \in Scans :
    \E failed \in SUBSET backups_to_delete(scan[1], keep_count) :
      CleanupOldBackups(keep_count, scan[1], scan[2], failed)

\* cleanup_old_backups when the scan of backup_root in line 276 raises:
\* the handler in lines 294-295 returns (False, 0, "Cleanup failed: ...").
CleanupScanRaises ==
  /\ \E keep_count \in 1..MaxKeep :
       last' = [Result("cleanup_old_backups", FALSE, "Cleanup failed",
                       NoPath, NoPath, 0, FALSE, FALSE)
                  EXCEPT !.keep = keep_count, !.at = "scan"]
  /\ UNCHANGED <<env, backups>>

\* ----------------------------------------- calls of two administrators
\* A call of one administrator is taken in two steps where it keeps a file
\* under backup_root open across several statements; the calls of the
\* other administrator run between the two steps.  Nothing in
\* BackupManager takes a lock.

\* create_backup up to line 50: ZipFile(backup_path, 'w') has created the
\* file under its final name; nothing is written to it yet.
BeginCreateBackup ==
  LET p == backup_filename("", clock) IN
  /\ CanCreate(p)
  /\ p \in Files => ~backups[p].unfinished
  /\ backups' = Put(backups, p,
        [Archive(Absent, NoDocs, Absent, FALSE, FALSE)
           EXCEPT !.unfinished = TRUE])
  /\ last' = Idle
  /\ UNCHANGED env

\* create_backup from line 52 on, in the same second: the entries are
\* written, the with-block closes the archive and the call returns.  The
\* live database exists whenever this step is taken.
FinishCreateBackup ==
  LET p == backup_filename("", clock) IN
  /\ p \in Files /\ backups[p].unfinished
  /\ \/ CreateBackupOk(FALSE, FALSE, "")
     \/ CreateBackupWriteFails(FALSE, FALSE, "")

\* create_database_only_backup up to the middle of line 95: shutil.copy2
\* has created the destination under its final name and copied a part of
\* the bytes.
BeginCreateDbOnly ==
  LET p == db_backup_filename(clock) IN
  /\ CanCreate(p)
  /\ p \in Files => ~backups[p].unfinished
  /\ db.content # Absent
  /\ backups' = Put(backups, p,
        [DbArtifact([content |-> Truncated, mtime |-> clock], FALSE)
           EXCEPT !.unfinished = TRUE])
  /\ last' = Idle
  /\ UNCHANGED env

\* The rest of line 95 and lines 97-102: the copy is completed, or it
\* raises and leaves the part that was copied.
FinishCreateDbOnly ==
  LET p == db_backup_filename(clock) IN
  /\ p \in Files /\ backups[p].unfinished
  /\ \/ CreateDbOnlyOk
     \/ /\ backups' = Put(backups, p,
              DbArtifact([content |-> Truncated, mtime |-> clock], FALSE))
        /\ last' = [Result("create_database_only_backup", FALSE,
                           "Database backup failed", NoPath, p, 0, FALSE,
                           FALSE)
                      EXCEPT !.at = "copy"]
        /\ UNCHANGED env

\* restore_backup of an archive up to line 193: the safety copy is
\* written and ZipFile(backup_file, 'r') has opened the archive.
BeginRestore ==
  \E backup_file \in Files :
    /\ IsZip(backup_file)
    /\ ~backups[backup_file].unfinished /\ ~backups[backup_file].held
    /\ safetyBackup' = SafetyCopy(safetyBackup)
    /\ backups' = [backups EXCEPT ![backup_file].held = TRUE]
    /\ last' = Idle
    /\ UNCHANGED <<config, clock, db, strayDb, docs, cfgFile,
                   beforeRestore>>

\* restore_backup from line 195 on: the entries are extracted, the
\* with-block closes the archive and the call returns.
FinishRestore(RestoreDocuments, RestoreConfig) ==
  \E backup_file \in Files, restore_documents \in RestoreDocuments,
     restore_config \in RestoreConfig :
    /\ backups[backup_file].held
    /\ \E at \in {"none", "db", "doc", "cfg"} :
         ExtractArchive(backup_file, restore_documents, restore_config, at)
    /\ backups' = [backups EXCEPT ![backup_file].held = FALSE]
    /\ UNCHANGED <<config, clock, beforeRestore, safetyBackup>>

\* ---------------------------------------------------------- environment
\* One second passes.
Tick ==
  /\ clock < MaxClock
  /\ clock' = clock + 1
  /\ last' = Idle
  /\ UNCHANGED <<config, db, strayDb, docs, cfgFile, beforeRestore,
                 safetyBackup, backups>>

\* The application commits to the live database (src/database.py:
\* init_database creates the file, every session commit rewrites it).
WriteDatabase ==
  \E c \in Contents :
    /\ c # db.content
    /\ db' = [content |-> c, mtime |-> clock]
    /\ last' = Idle
    /\ UNCHANGED <<config, clock, strayDb, docs, cfgFile, beforeRestore,
                   safetyBackup, backups>>

\* The application commits to the live database without changing what
\* the model tells apart in its bytes; the file's st_mtime moves.
TouchDatabase ==
  /\ db.mtime < clock \/ db.content = Absent
  /\ db' = [content |-> IF db.content = Absent THEN 1 ELSE db.content,
            mtime |-> clock]
  /\ last' = Idle
  /\ UNCHANGED <<config, clock, strayDb, docs, cfgFile, beforeRestore,
                 safetyBackup, backups>>

\* The application saves an uploaded document below the document root
\* (src/document_management.py, add_document_form), under one of the
\* given names.
SaveDocument(Names) ==
  \E d \in Names, c \in Contents :
    /\ c # docs[d]
    /\ docs' = [docs EXCEPT ![d] = c]
    /\ last' = Idle
    /\ UNCHANGED <<config, clock, db, strayDb, cfgFile, beforeRestore,
                   safetyBackup, backups>>

\* The administrator edits config.ini (src/administration.py: "Edit the
\* config.ini file and restart the application").
EditConfig ==
  \E c \in Contents :
    /\ c # cfgFile
    /\ cfgFile' = c
    /\ last' = Idle
    /\ UNCHANGED <<config, clock, db, strayDb, docs, beforeRestore,
                   safetyBackup, backups>>

\* The installation is moved to a fresh live location: no database file,
\* an empty document tree (the state restore_backup tests for in lines
\* 173 and 189).
FreshLiveLocation ==
  /\ db.content # Absent
  /\ db' = NoDbFile
  /\ docs' = NoDocs
  /\ last' = Idle
  /\ UNCHANGED <<config, clock, strayDb, cfgFile, beforeRestore,
                 safetyBackup, backups>>

\* A file under backup_root that no create call wrote.
OtherFile ==
  [raw |-> 1, dbEntry |-> Absent, docEntries |-> NoDocs,
   cfgEntry |-> Absent, mtime |-> 0, born |-> 0, returned |-> FALSE,
   srcDb |-> Absent, srcDocs |-> NoDocs, docPrefix |-> "",
   unfinished |-> FALSE, held |-> FALSE]

NotesFile == <<"notes", 0, "txt">>

\* ------------------------------------------------------- specifications
\* SpecRestore: what the two create calls write and what restore_backup
\* does with it, within one second of the clock.  The database directory
\* is the default "data" or is named "database".
InitRestore ==
  /\ config \in [dbDir : DbDirNames, docRoot : {"documents"}]
  /\ clock = 0
  /\ db \in {NoDbFile, [content |-> 1, mtime |-> 0]}
  /\ strayDb = Absent
  /\ docs = NoDocs
  /\ cfgFile = Absent
  /\ beforeRestore = Absent
  /\ safetyBackup = Absent
  /\ backups = [p \in {NotesFile} |-> OtherFile]
  /\ last = Idle

NextRestore ==
  \/ create_backup({TRUE}, {FALSE})
  \/ create_database_only_backup
  \/ restore_backup({TRUE}, {FALSE})
  \/ WriteDatabase
  \/ FreshLiveLocation

SpecRestore == InitRestore /\ [][NextRestore]_vars

\* SpecCatalog: the artifacts under backup_root over time: the create
\* calls, list_backups, delete_backup and cleanup_old_backups, with the
\* default configuration.
InitCatalog ==
  /\ config = [dbDir |-> "data", docRoot |-> "documents"]
  /\ clock = 0
  /\ db \in {NoDbFile, [content |-> 1, mtime |-> 0]}
  /\ strayDb = Absent
  /\ docs = NoDocs
  /\ cfgFile = Absent
  /\ beforeRestore = Absent
  /\ safetyBackup = Absent
  /\ backups = [p \in {NotesFile} |-> OtherFile]
  /\ last = Idle

NextCatalog ==
  \/ create_backup({TRUE}, {FALSE})
  \/ create_database_only_backup
  \/ delete_backup(PathArgs)
  \/ cleanup_old_backups
  \/ Tick
  \/ TouchDatabase

SpecCatalog == InitCatalog /\ [][NextCatalog]_vars

\* SpecPublic: every public operation of BackupManager, the three that
\* only report included, on an installation with the default
\* configuration, a document and a config.ini, within one second of the
\* clock.  Documents and config.ini are neither saved nor restored, and
\* delete_backup is also given the path of the live database.
InitPublic ==
  /\ config = [dbDir |-> "data", docRoot |-> "documents"]
  /\ clock = 0
  /\ db = [content |-> 1, mtime |-> 0]
  /\ strayDb = Absent
  /\ docs = [d \in DocNames |-> IF d = "a.pdf" THEN 1 ELSE Absent]
  /\ cfgFile = 1
  /\ beforeRestore = Absent
  /\ safetyBackup = Absent
  /\ backups = [p \in {NotesFile} |-> OtherFile]
  /\ last = Idle

NextPublic ==
  \/ create_backup({FALSE}, {FALSE})
  \/ create_database_only_backup
  \/ ListBackups
  \/ restore_backup({FALSE}, {FALSE})
  \/ delete_backup(PathArgs \cup {DatabasePath})
  \/ cleanup_old_backups
  \/ CleanupScanRaises
  \/ GetBackupStatistics
  \/ ExportBackupInfo

SpecPublic == InitPublic /\ [][NextPublic]_vars

\* SpecDocs: the document tree through create_backup and restore_backup,
\* within one second of the clock.  The document root is the default
\* "documents" or is named "docs".
InitDocs ==
  /\ config \in [dbDir : {"data"}, docRoot : DocRootNames]
  /\ clock = 0
  /\ db \in {NoDbFile, [content |-> 1, mtime |-> 0]}
  /\ strayDb = Absent
  /\ docs = NoDocs
  /\ cfgFile = 1
  /\ beforeRestore = Absent
  /\ safetyBackup = Absent
  /\ backups = [p \in {NotesFile} |-> OtherFile]
  /\ last = Idle

NextDocs ==
  \/ create_backup({TRUE}, {FALSE})
  \/ restore_backup(BOOLEAN, {FALSE})
  \/ SaveDocument(DocNames)

SpecDocs == InitDocs /\ [][NextDocs]_vars

\* An archive that create_backup(include_documents=True,
\* include_config=True) returned in an earlier session, when the live
\* database, both documents and config.ini (if there was one, cfgEntry)
\* held the bytes 1: lines 50-69.
EarlierArchive(cfgEntry) ==
  [raw |-> Absent, dbEntry |-> 1,
   docEntries |-> [d \in DocNames |-> 1], cfgEntry |-> cfgEntry,
   mtime |-> 0, born |-> 0, returned |-> TRUE, srcDb |-> 1,
   srcDocs |-> [d \in DocNames |-> 1], docPrefix |-> "documents",
   unfinished |-> FALSE, held |-> FALSE]

\* A copy that create_database_only_backup returned in that session:
\* line 95.
EarlierDbCopy ==
  [raw |-> 1, dbEntry |-> Absent, docEntries |-> NoDocs,
   cfgEntry |-> Absent, mtime |-> 0, born |-> 0, returned |-> TRUE,
   srcDb |-> 1, srcDocs |-> NoDocs, docPrefix |-> "",
   unfinished |-> FALSE, held |-> FALSE]

\* SpecOptions: restore_backup with every choice of its two flags, on an
\* installation with the default configuration whose artifacts come from
\* an earlier session and whose database, a.pdf and config.ini have been
\* written since.
InitOptions ==
  /\ config = [dbDir |-> "data", docRoot |-> "documents"]
  /\ clock = 1
  /\ db = [content |-> 2, mtime |-> 1]
  /\ strayDb = Absent
  /\ docs = [d \in DocNames |-> IF d = "a.pdf" THEN 2 ELSE Absent]
  /\ cfgFile = 2
  /\ beforeRestore = Absent
  /\ safetyBackup = Absent
  /\ \E cfgEntry \in {Absent, 1} :
       backups = [p \in {NotesFile, backup_filename("", 0),
                         db_backup_filename(0)} |->
                    IF IsZip(p) THEN EarlierArchive(cfgEntry)
                    ELSE IF IsDb(p) THEN EarlierDbCopy ELSE OtherFile]
  /\ last = Idle

NextOptions ==
  \/ restore_backup(BOOLEAN, BOOLEAN)
  \/ SaveDocument({"b.pdf"})
  \/ EditConfig

SpecOptions == InitOptions /\ [][NextOptions]_vars

\* SpecRecovery: restore_backup(restore_documents=True,
\* restore_config=True) called again and again on the artifacts of an
\* earlier session, with the database directory named "data" or
\* "database".  Documents are saved in between; the live database, which
\* holds the bytes 2 at first, is written by the restores only.
InitRecovery ==
  /\ config \in [dbDir : DbDirNames, docRoot : {"documents"}]
  /\ clock = 1
  /\ db = [content |-> 2, mtime |-> 1]
  /\ strayDb = Absent
  /\ docs = [d \in DocNames |-> IF d = "a.pdf" THEN 2 ELSE Absent]
  /\ cfgFile = 2
  /\ beforeRestore = Absent
  /\ safetyBackup = Absent
  /\ backups = [p \in {NotesFile, backup_filename("", 0),
                       db_backup_filename(0)} |->
                  IF IsZip(p) THEN EarlierArchive(1)
                  ELSE IF IsDb(p) THEN EarlierDbCopy ELSE OtherFile]
  /\ last = Idle

NextRecovery ==
  \/ restore_backup({TRUE}, {TRUE})
  \/ SaveDocument({"a.pdf"})

SpecRecovery == InitRecovery /\ [][NextRecovery]_vars

\* SpecConcurrent: two administrators on one backup_root within one
\* second.  One of them is inside create_backup,
\* create_database_only_backup or restore_backup while the other lists,
\* restores, deletes and cleans up.
InitConcurrent ==
  /\ config = [dbDir |-> "data", docRoot |-> "documents"]
  /\ clock = 1
  /\ db = [content |-> 2, mtime |-> 1]
  /\ strayDb = Absent
  /\ docs = NoDocs
  /\ cfgFile = Absent
  /\ beforeRestore = Absent
  /\ safetyBackup = Absent
  /\ backups = [p \in {backup_filename("", 0)} |-> EarlierArchive(Absent)]
  /\ last = Idle

NextConcurrent ==
  \/ BeginCreateBackup
  \/ FinishCreateBackup
  \/ BeginCreateDbOnly
  \/ FinishCreateDbOnly
  \/ BeginRestore
  \/ FinishRestore({FALSE}, {FALSE})
  \/ ListBackups
  \/ restore_backup({FALSE}, {FALSE})
  \/ delete_backup(Files)
  \/ cleanup_old_backups

SpecConcurrent == InitConcurrent /\ [][NextConcurrent]_vars

\* SpecArchive: what create_backup puts into an archive, for every choice
\* of its two flags, while the database, the documents and config.ini
\* are written.
InitArchive ==
  /\ config = [dbDir |-> "data", docRoot |-> "documents"]
  /\ clock = 0
  /\ db \in {NoDbFile, [content |-> 1, mtime |-> 0]}
  /\ strayDb = Absent
  /\ docs = NoDocs
  /\ cfgFile \in {Absent, 1}
  /\ beforeRestore = Absent
  /\ safetyBackup = Absent
  /\ backups = [p \in {NotesFile} |-> OtherFile]
  /\ last = Idle

NextArchive ==
  \/ create_backup(BOOLEAN, BOOLEAN)
  \/ WriteDatabase
  \/ SaveDocument(DocNames)
  \/ EditConfig

SpecArchive == InitArchive /\ [][NextArchive]_vars

\* SpecListing: what list_backups and get_backup_statistics report about
\* backup_root over time, while artifacts are created and deleted.  There
\* is a file that is no backup and an archive in a subdirectory.
InitListing ==
  /\ config = [dbDir |-> "data", docRoot |-> "documents"]
  /\ clock = 0
  /\ db \in {NoDbFile, [content |-> 1, mtime |-> 0]}
  /\ strayDb = Absent
  /\ docs = NoDocs
  /\ cfgFile = Absent
  /\ beforeRestore = Absent
  /\ safetyBackup = Absent
  /\ backups = [p \in {NotesFile, SubdirFile} |-> OtherFile]
  /\ last = Idle

NextListing ==
  \/ create_backup({FALSE}, {FALSE})
  \/ create_database_only_backup
  \/ ListBackups
  \/ GetBackupStatistics
  \/ delete_backup(Artifacts)
  \/ Tick
  \/ TouchDatabase

SpecListing == InitListing /\ [][NextListing]_vars

\* SpecSize: _get_readable_size on byte counts from 0 to beyond the PB
\* tier.
InitSize ==
  /\ config = [dbDir |-> "data", docRoot |-> "documents"]
  /\ clock = 0
  /\ db = [content |-> 1, mtime |-> 0]
  /\ strayDb = Absent
  /\ docs = NoDocs
  /\ cfgFile = Absent
  /\ beforeRestore = Absent
  /\ safetyBackup = Absent
  /\ backups = [p \in {NotesFile} |-> OtherFile]
  /\ last = Idle

NextSize == GetReadableSize

SpecSize == InitSize /\ [][NextSize]_vars

\* ================================================================ claims
\* The call that just returned was a restore_backup that went down the
\* database-only path / the full path.
RestoredDbOnly == last.op = "restore_backup" /\ last.target \in Files
                  /\ IsDb(last.target)

RestoredFull == last.op = "restore_backup" /\ last.target \in Files
                /\ IsZip(last.target)

\* The safety-copy file of the restore kind that handles path p, as the
\* step leaves it.
SafetyFileAfter(p) == IF IsDb(p) THEN beforeRestore' ELSE safetyBackup'

\* C1 (as stated): after a successful restore_backup(path,
\* restore_documents=True) of an archive that create_backup(
\* include_documents=True) returned, the file at the live database path
\* holds the database bytes that were backed up and the live document tree
\* holds every document that was backed up, under every configuration.
C1_FullRoundTrip ==
  (RestoredFull /\ last.ok /\ last.a1 /\ backups[last.target].returned
     /\ backups[last.target].srcDb \in Contents)
  => /\ db.content = backups[last.target].srcDb
     /\ \A d \in DocNames :
          backups[last.target].srcDocs[d] # Absent
            => docs[d] = backups[last.target].srcDocs[d]

\* C2: after a successful restore_backup of a path that
\* create_database_only_backup returned, the live database holds the bytes
\* the database had when that backup was made, whatever was written to the
\* live database in between.
C2_DbOnlyRoundTrip ==
  (RestoredDbOnly /\ last.ok /\ backups[last.target].returned)
  => db.content = backups[last.target].srcDb

\* C2 witness: a database-only restore succeeded on a live database that
\* had been changed since the backup (the safety copy holds other bytes).
C2_Witness ==
  /\ RestoredDbOnly /\ last.ok /\ backups[last.target].returned
  /\ beforeRestore \in Contents
  /\ beforeRestore # db.content

\* C3 (as stated): every restore_backup call that reaches one of the two
\* restore paths while the live database exists leaves a safety copy that
\* holds the database bytes from before the call.
C3_SafetyCopyAlways ==
  [][(last'.op = "restore_backup" /\ last'.target \in Files
        /\ (IsDb(last'.target) \/ IsZip(last'.target))
        /\ db.content # Absent)
       => (beforeRestore' = db.content \/ safetyBackup' = db.content)]_vars

\* C3 (amended): every such call in which writing the safety copy does not
\* itself raise, so in particular every call that returns success, leaves
\* the safety-copy file of its restore kind holding the database bytes
\* from before the call.
C3_SafetyCopyUnlessItFails ==
  [][(last'.op = "restore_backup" /\ last'.target \in Files
        /\ (IsDb(last'.target) \/ IsZip(last'.target))
        /\ db.content # Absent
        /\ last'.at # "safety")
       => /\ SafetyFileAfter(last'.target) = db.content
          /\ last'.ok => last'.at = "none"]_vars

\* C3 witness: a successful full restore over an existing live database
\* has left its safety copy.
C3_Witness ==
  /\ RestoredFull /\ last.ok
  /\ safetyBackup \in Contents

\* C4: a restore that changes the live database has first written the
\* safety copy of the bytes it replaces; and when the live database exists
\* and writing the safety copy raises, the call returns failure and the
\* live database is as it was.
C4_SafetyCopyPrecedesOverwrite ==
  [][(last'.op = "restore_backup" /\ db.content # Absent)
       => /\ db' # db => SafetyFileAfter(last'.target) = db.content
          /\ last'.at = "safety" => (~last'.ok /\ db' = db)]_vars

\* C4 witness: a restore whose safety copy could not be written returned
\* failure over an existing live database.
C4_Witness ==
  /\ last.op = "restore_backup" /\ last.at = "safety" /\ ~last.ok
  /\ db.content \in Contents

\* C5 (as stated): with no live database file, either create call returns
\* (False, None, message) and the files under backup_root are the same
\* after the call as before it.
C5_MissingDatabaseLeavesNothing ==
  [][(last'.op \in {"create_backup", "create_database_only_backup"}
        /\ db.content = Absent)
       => /\ ~last'.ok /\ last'.path = NoPath
          /\ Files' = Files]_vars

\* C6 (as stated): after create_backup has failed while adding an entry to
\* the archive, list_backups has no record for the archive it was writing.
C6_NoPartialArchiveListed ==
  (last.op = "create_backup" /\ ~last.ok /\ last.at \in {"db", "doc", "cfg"})
  => \A listing \in list_backups({}) :
       \A i \in 1..Len(listing) : listing[i] # last.target

\* C7 (as stated): of any two artifacts that successful create calls made
\* at least one second apart, list_backups puts the one made later first.
C7_ListedInCreationOrder ==
  \A listing \in list_backups({}) :
    \A i, j \in 1..Len(listing) :
      (/\ i < j
       /\ backups[listing[i]].returned /\ backups[listing[j]].returned
       /\ backups[listing[i]].born # backups[listing[j]].born)
      => backups[listing[i]].born > backups[listing[j]].born

\* C8 (as stated): when list_backups gives M > N records, every file is
\* listed and no unlink raises, cleanup_old_backups(N) leaves exactly N
\* artifacts and none of the kept ones was made before a deleted one.
C8_CleanupKeepsNewest ==
  [][(last'.op = "cleanup_old_backups" /\ last'.listed > last'.keep
        /\ last'.failed = {} /\ ~last'.a2)
       => /\ Cardinality(Artifacts') = last'.keep
          /\ \A k \in Artifacts', d \in Artifacts \ Artifacts' :
               backups[k].born >= backups[d].born]_vars

\* C9: cleanup_old_backups(N) given at most N records returns
\* (True, 0, message) and removes nothing; and a cleanup that follows at
\* once on a cleanup with the same N in which nothing raised removes
\* nothing.
C9_CleanupNoOp ==
  [][(last'.op = "cleanup_old_backups")
       => /\ last'.listed <= last'.keep
            => (last'.ok /\ last'.count = 0 /\ backups' = backups)
          /\ (last.op = "cleanup_old_backups" /\ last.failed = {}
                /\ ~last.a2 /\ last'.keep = last.keep)
            => (last'.ok /\ last'.count = 0 /\ backups' = backups)]_vars

\* C9 witness: a cleanup found exactly keep_count (at least one) records
\* and reported that nothing was to be done.
C9_Witness ==
  /\ last.op = "cleanup_old_backups" /\ last.msg = "No cleanup needed"
  /\ last.listed = last.keep /\ last.count = 0
  /\ Cardinality(Artifacts) >= 1

\* C10: when an unlink raises during cleanup_old_backups, the call still
\* returns success, every selected artifact whose unlink did not raise is
\* gone, and deleted_count is the number of files that were removed.
C10_BestEffortCleanup ==
  [][(last'.op = "cleanup_old_backups" /\ last'.failed # {})
       => /\ last'.ok
          /\ last'.count = Cardinality(Files \ Files')
          /\ last'.count
               = last'.listed - last'.keep - Cardinality(last'.failed)
          /\ last'.failed \subseteq Files']_vars

\* C10 witness: a cleanup in which one unlink raised and another artifact
\* was removed.
C10_Witness ==
  /\ last.op = "cleanup_old_backups" /\ last.ok
  /\ last.failed # {} /\ last.count >= 1

\* The two create calls.
Creates == {"create_backup", "create_database_only_backup"}

\* C11: after delete_backup(path) has returned success no list that
\* list_backups can return holds a record for path: every record is for a
\* file that is under backup_root now, the deleted path is not, and a path
\* comes (back) under backup_root only by a create call writing it.
C11_DeleteThenList ==
  /\ [](\A scan \in Scans :
          \A i \in 1..Len(scan[1]) :
            /\ scan[1][i] \in Files
            /\ (last.op = "delete_backup" /\ last.ok)
                 => scan[1][i] # last.target)
  /\ [][\A p \in Files' \ Files :
          last'.op \in Creates /\ last'.target = p]_vars

\* C11 witness: an archive was deleted with success while another artifact
\* stays listed.
C11_Witness ==
  /\ last.op = "delete_backup" /\ last.ok /\ IsZip(last.target)
  /\ last.target \notin Files
  /\ Artifacts # {}

\* C12 (as stated): delete_backup, for any path argument, removes at most
\* the file at that path under backup_root, leaves every other file there
\* as it was and leaves the live database, the documents and config.ini
\* unchanged; for a path that does not exist it returns
\* (False, 'Backup file not found') and changes nothing.
C12_DeleteFrame ==
  [][(last'.op = "delete_backup")
       => /\ Files' \subseteq Files
          /\ \A p \in Files \ {last'.target} :
               p \in Files' /\ backups'[p] = backups[p]
          /\ db' = db /\ docs' = docs /\ cfgFile' = cfgFile
          /\ ~Exists(last'.target)
               => /\ ~last'.ok /\ last'.msg = "Backup file not found"
                  /\ backups' = backups]_vars

\* C13 (as stated): every successful create call makes the number of
\* files under backup_root one larger, writing to a path at which there
\* was no file, and leaves the live database, the documents and config.ini
\* unchanged.
C13_CreateAddsExactlyOne ==
  [][(last'.op \in Creates /\ last'.ok)
       => /\ Cardinality(Files') = Cardinality(Files) + 1
          /\ last'.path \notin Files
          /\ db' = db /\ docs' = docs /\ cfgFile' = cfgFile]_vars

\* The bytes of a file under backup_root.
Bytes(a) == <<a.raw, a.dbEntry, a.docEntries, a.cfgEntry>>

\* C14 (as stated): no step changes the bytes of an artifact that stays
\* under backup_root, an artifact goes away only in delete_backup or
\* cleanup_old_backups, and restore_backup leaves every artifact as it
\* was.
C14_ArtifactImmutable ==
  [][/\ \A p \in Artifacts \cap Artifacts' :
          Bytes(backups'[p]) = Bytes(backups[p])
     /\ Artifacts \ Artifacts' # {}
          => last'.op \in {"delete_backup", "cleanup_old_backups"}
     /\ last'.op = "restore_backup" => backups' = backups]_vars

\* The sizes of the files in a set of paths, added up.
RECURSIVE SizeOfAll(_)
SizeOfAll(P) ==
  IF P = {} THEN 0
  ELSE LET p == CHOOSE x \in P : TRUE
       IN st_size(backups[p]) + SizeOfAll(P \ {p})

\* The paths of a list of records.
PathsOf(records) == {records[i].path : i \in 1..Len(records)}

C16_Totality == ~last.raised

\* C17: restore_backup of a path that does not exist returns
\* (False, 'Backup file not found'), and of a file whose extension is
\* neither .db nor .zip returns (False, 'Invalid backup file format'); in
\* both cases no safety copy is written and the live database, the
\* documents, config.ini and the files under backup_root are unchanged.
C17_RestoreRejection ==
  [][(last'.op = "restore_backup")
       => /\ last'.target \notin Files
               => /\ ~last'.ok /\ last'.msg = "Backup file not found"
                  /\ UNCHANGED <<env, backups>>
          /\ (last'.target \in Files /\ ~IsDb(last'.target)
                /\ ~IsZip(last'.target))
               => /\ ~last'.ok
                  /\ last'.msg = "Invalid backup file format"
                  /\ UNCHANGED <<env, backups>>]_vars

\* C17 witness: a file that is neither .db nor .zip was refused while a
\* live database exists and no safety copy does.
C17_Witness ==
  /\ last.op = "restore_backup"
  /\ last.msg = "Invalid backup file format"
  /\ last.target = NotesFile
  /\ db.content \in Contents
  /\ beforeRestore = Absent /\ safetyBackup = Absent

\* C18 (as stated): under every name of the document root, after a
\* successful restore_backup(path, restore_documents=True) of an archive
\* that create_backup(include_documents=True) returned, every document
\* that was written into the archive is in the live document tree, where
\* it was read from, with the bytes that were archived.
C18_DocRestoreAnyRoot ==
  (RestoredFull /\ last.ok /\ last.a1 /\ backups[last.target].returned)
  => \A d \in DocNames :
       backups[last.target].srcDocs[d] # Absent
         => docs[d] = backups[last.target].srcDocs[d]

\* C19: a full restore with restore_documents=False leaves the document
\* tree unchanged and with restore_config=False leaves config.ini
\* unchanged; config.ini changes only in a full restore with
\* restore_config=True of an archive that has a config.ini entry; a
\* database-only restore changes neither documents nor config.ini.
C19_RestoreOptionFrame ==
  [][(last'.op = "restore_backup" /\ last'.target \in Files)
       => /\ (IsZip(last'.target) /\ ~last'.a1) => docs' = docs
          /\ (IsZip(last'.target) /\ ~last'.a2) => cfgFile' = cfgFile
          /\ cfgFile' # cfgFile
               => /\ IsZip(last'.target) /\ last'.a2
                  /\ backups[last'.target].cfgEntry # Absent
          /\ IsDb(last'.target)
               => (docs' = docs /\ cfgFile' = cfgFile)]_vars

\* C19 witness: a successful full restore with restore_documents=False
\* and restore_config=True has brought back the archived config.ini and
\* left a.pdf, of which the archive holds other bytes, as it was.
C19_Witness ==
  /\ RestoredFull /\ last.ok /\ ~last.a1 /\ last.a2
  /\ backups[last.target].cfgEntry = 1 /\ cfgFile = 1
  /\ backups[last.target].docEntries["a.pdf"] = 1 /\ docs["a.pdf"] = 2

\* C20 (as stated): a successful full restore with restore_documents=True
\* removes no live document, leaves a live document that is no entry of
\* the archive as it was, and gives a live document that is an entry of
\* the archive the archived bytes.
C20_AdditiveDocRestore ==
  [][(last'.op = "restore_backup" /\ last'.target \in Files
        /\ IsZip(last'.target) /\ last'.ok /\ last'.a1)
       => \A d \in DocNames :
            LET entry == backups[last'.target].docEntries[d] IN
            /\ docs[d] # Absent => docs'[d] # Absent
            /\ entry = Absent => docs'[d] = docs[d]
            /\ (docs[d] # Absent /\ entry # Absent)
                 => docs'[d] = entry]_vars

\* C21: the archive a successful create_backup leaves at the path it
\* returns has one database entry, with the bytes of the live database at
\* the call; document entries only with include_documents=True, then one
\* for each file of the document tree with that file's bytes; and a
\* config.ini entry only with include_config=True and a config.ini in
\* the working directory, then with its bytes.
C21_ArchiveContents ==
  [][(last'.op = "create_backup" /\ last'.ok)
       => LET a == backups'[last'.path] IN
          /\ IsZip(last'.path) /\ a.raw = Absent
          /\ a.dbEntry \in Contents /\ a.dbEntry = db.content
          /\ a.docEntries = IF last'.a1 THEN docs ELSE NoDocs
          /\ a.cfgEntry = IF last'.a2 THEN cfgFile ELSE Absent]_vars

\* C21 witness: a successful create_backup(include_documents=False,
\* include_config=True) in an installation with a document and a
\* config.ini left an archive with the config.ini entry and no document
\* entry.
C21_Witness ==
  /\ last.op = "create_backup" /\ last.ok /\ ~last.a1 /\ last.a2
  /\ docs["a.pdf"] \in Contents /\ cfgFile \in Contents
  /\ backups[last.path].docEntries = NoDocs
  /\ backups[last.path].cfgEntry = cfgFile

\* The files list_backups is to report.
Listable == {p \in Files : Direct(p) /\ Ext(p) \in {"zip", "db"}}

\* C22: every list list_backups can return has exactly one record for
\* each .zip or .db file directly inside backup_root whose stat() did not
\* raise and no other record (none for a file with another extension or
\* in a subdirectory), and the type of a record is 'Full Backup' when the
\* file is a .zip and 'Database Only' otherwise; a call that returned with
\* no stat() raised lists every such file.
C22_ListingProjection ==
  /\ \A unreadable \in Unreadable :
       \A listing \in list_backups(unreadable) :
         LET records == Records(listing) IN
         /\ PathsOf(records) = Listable \ unreadable
         /\ Len(records) = Cardinality(Listable \ unreadable)
         /\ \A i \in 1..Len(records) :
              records[i].type = IF Ext(records[i].path) = "zip"
                                  THEN "Full Backup" ELSE "Database Only"
  /\ (last.op = "list_backups" /\ ~last.raised)
       => /\ PathsOf(last.records) \subseteq Listable
          /\ ~last.a2 => PathsOf(last.records) = Listable

\* C22 witness: list_backups returned a list with an archive and a
\* database copy while stat() raised on a third artifact, and the file
\* that is no backup and the archive in the subdirectory are there.
C22_Witness ==
  /\ last.op = "list_backups" /\ ~last.raised /\ last.a2
  /\ Len(last.records) = 2
  /\ last.records[1].type # last.records[2].type
  /\ {NotesFile, SubdirFile} \subseteq Files

\* The statistics of a list of records are within the claim of C23.
StatisticsBounds(records, stats) ==
  IF records = <<>>
    THEN /\ stats.total_backups = 0
         /\ stats.total_size_bytes = 0
         /\ stats.newest_backup = NoTime
         /\ stats.oldest_backup = NoTime
    ELSE /\ \E i \in 1..Len(records) :
              stats.newest_backup = records[i].created
         /\ \E i \in 1..Len(records) :
              stats.oldest_backup = records[i].created
         /\ \A i \in 1..Len(records) :
              /\ records[i].created <= stats.newest_backup
              /\ records[i].created >= stats.oldest_backup

\* C23: whenever get_backup_statistics has returned, its newest_backup
\* is the largest and its oldest_backup the smallest 'created' of the list
\* list_backups gave it; for the empty list it has returned total_backups
\* 0, total_size_bytes 0 and no newest or oldest time, as a normal result.
C23_StatisticsBounds ==
  (last.op = "get_backup_statistics" /\ ~last.raised)
    => /\ StatisticsBounds(last.records, last.stats)
       /\ last.ok

\* C23 witness: statistics were returned for two backups made at
\* different seconds.
C23_Witness ==
  /\ last.op = "get_backup_statistics" /\ ~last.raised
  /\ Len(last.records) = 2
  /\ last.stats.newest_backup > last.stats.oldest_backup

\* The statistics of zero backups were returned.
C23_EmptyReached ==
  /\ last.op = "get_backup_statistics" /\ ~last.raised
  /\ last.records = <<>> /\ last.stats = NoStats

\* C26 (as stated): in every list list_backups has returned, the
\* 'created' of the record of an artifact that a create call returned is
\* not earlier than the second at which that call started.
C26_CreatedNotBeforeCall ==
  (last.op = "list_backups" /\ ~last.raised)
    => \A i \in 1..Len(last.records) :
         LET p == last.records[i].path
         IN backups[p].returned
              => last.records[i].created >= backups[p].born

\* The same, for the archives create_backup returned.
C26_ArchivesOnly ==
  (last.op = "list_backups" /\ ~last.raised)
    => \A i \in 1..Len(last.records) :
         LET p == last.records[i].path
         IN (backups[p].returned /\ IsZip(p))
              => last.records[i].created >= backups[p].born

\* C27 (as stated): whenever restore_backup has returned success for a
\* .zip artifact, the archive holds a database entry and the file at the
\* live database path holds the bytes of that entry.
C27_RestoreSuccessSound ==
  (RestoredFull /\ last.ok)
    => /\ backups[last.target].dbEntry # Absent
       /\ db.content = backups[last.target].dbEntry

\* The first part alone, where the database directory is named
\* "database": a successful restore of a .zip artifact found a database
\* entry in it.
C27_EntryPresentInPlace ==
  (RestoredFull /\ last.ok /\ ExtractsInPlace)
    => backups[last.target].dbEntry # Absent

\* C25: a full restore that fails while it extracts a document or
\* config.ini returns (False, 'Full restore failed: ...') with the
\* database entry of the archive already extracted (over the live
\* database where the database directory is named "database", beside it
\* otherwise) and not taken back, and with the database bytes from before
\* the call in the safety copy.
C25_NoRollback ==
  [][(last'.op = "restore_backup" /\ last'.at \in {"doc", "cfg"})
       => /\ IsZip(last'.target)
          /\ ~last'.ok /\ last'.msg = "Full restore failed"
          /\ backups[last'.target].dbEntry # Absent
               => IF ExtractsInPlace
                    THEN db'.content = backups[last'.target].dbEntry
                    ELSE strayDb' = backups[last'.target].dbEntry
          /\ db.content # Absent => safetyBackup' = db.content]_vars

\* C25 witness: a full restore failed while it extracted config.ini; the
\* live database holds the entry of the archive, a document was restored,
\* and the safety copy holds other bytes, those from before the call.
C25_Witness ==
  /\ RestoredFull /\ ~last.ok /\ last.at = "cfg"
  /\ last.msg = "Full restore failed"
  /\ ExtractsInPlace
  /\ db.content = backups[last.target].dbEntry
  /\ docs["a.pdf"] = backups[last.target].docEntries["a.pdf"]
  /\ safetyBackup \in Contents /\ safetyBackup # db.content

\* The same outcome after a failure in the extraction of a document.
C25_WitnessDoc ==
  /\ RestoredFull /\ ~last.ok /\ last.at = "doc"
  /\ ExtractsInPlace
  /\ db.content = backups[last.target].dbEntry
  /\ safetyBackup \in Contents /\ safetyBackup # db.content

\* C28: every successful restore over an existing live database leaves in
\* the one safety-copy file of its kind (<stem>_before_restore.db for a
\* .db artifact, <stem>_safety_backup.db for a .zip artifact) the database
\* bytes from just before that call, in place of whatever the file held
\* from an earlier restore, and does not touch the safety-copy file of the
\* other kind nor write a copy anywhere else under backup_root.
C28_SafetyCopyOverwritten ==
  [][(last'.op = "restore_backup" /\ last'.ok /\ db.content # Absent)
       => /\ IsDb(last'.target)
               => /\ beforeRestore' = db.content
                  /\ safetyBackup' = safetyBackup
          /\ IsZip(last'.target)
               => /\ safetyBackup' = db.content
                  /\ beforeRestore' = beforeRestore
          /\ backups' = backups]_vars

\* C28 witness: a second successful full restore.  In SpecRecovery only
\* restores write the live database, which held the bytes 2 at first; the
\* safety copy of the full restores holds the bytes 1 that an earlier full
\* restore had put into the live database, and the bytes 2 that this
\* earlier restore had saved are in neither safety-copy file.
C28_Witness ==
  /\ RestoredFull /\ last.ok /\ ExtractsInPlace
  /\ safetyBackup = backups[last.target].dbEntry
  /\ safetyBackup = 1
  /\ beforeRestore = Absent

\* The same after a second successful database-only restore.
C28_WitnessDbOnly ==
  /\ RestoredDbOnly /\ last.ok
  /\ beforeRestore = backups[last.target].raw
  /\ beforeRestore = 1
  /\ safetyBackup = Absent

\* list_backups has returned no record of a file that a create call is
\* still writing.
C30_ListsFinishedOnly ==
  (last.op = "list_backups" /\ ~last.raised)
    => \A i \in 1..Len(last.records) :
         ~backups[last.records[i].path].unfinished

\* No restore_backup call gets to open a file that a create call is still
\* writing.
C30_RestoresFinishedOnly ==
  [][(last'.op = "restore_backup" /\ last'.target \in Files
        /\ last'.at # "safety")
       => ~backups[last'.target].unfinished]_vars

\* No step of delete_backup removes a file that a restore_backup call has
\* open.
C30_DeleteSparesHeld ==
  [][last'.op = "delete_backup"
       => \A p \in Files \ Files' : ~backups[p].held]_vars

\* No step of cleanup_old_backups removes a file that a restore_backup
\* call has open.
C30_CleanupSparesHeld ==
  [][last'.op = "cleanup_old_backups"
       => \A p \in Files \ Files' : ~backups[p].held]_vars

\* C30 (as stated): with the calls of two administrators interleaved,
\* list_backups never returns and restore_backup never reads an archive
\* that a create call has not finished writing, and neither delete_backup
\* nor cleanup_old_backups removes an artifact that a restore_backup call
\* is reading.
C30_ConcurrentAdministrators ==
  /\ []C30_ListsFinishedOnly
  /\ C30_RestoresFinishedOnly
  /\ C30_DeleteSparesHeld
  /\ C30_CleanupSparesHeld

\* A database-only restore has copied a database copy that was still
\* being written over the live database and returned success.
C30_PartialCopyRestored ==
  /\ RestoredDbOnly /\ last.ok
  /\ backups[last.target].unfinished
  /\ db.content = Truncated

\* C29 (as stated): whenever get_backup_statistics has returned, with
\* zero backups or more, its total_size is what _get_readable_size makes
\* of its total_size_bytes.
C29_TotalSizeFormatted ==
  (last.op = "get_backup_statistics" /\ ~last.raised)
    => last.stats.total_size
         = _get_readable_size(Size(last.stats.total_size_bytes, 0))

\* The same, for the calls that found at least one backup.
C29_NonEmptyOnly ==
  (last.op = "get_backup_statistics" /\ ~last.raised
     /\ last.records # <<>>)
    => last.stats.total_size
         = _get_readable_size(Size(last.stats.total_size_bytes, 0))

\* The six units, and the tier of a byte count num * 1024^exp > 0: the
\* number of times it can be divided by 1024 before it is below 1024, at
\* most 5.
UnitNames == <<"B", "KB", "MB", "GB", "TB", "PB">>

Tier(v) ==
  LET k == v.exp + (IF v.num >= 1024 THEN 1 ELSE 0)
  IN IF v.num = 0 THEN 0 ELSE IF k > 5 THEN 5 ELSE k

\* C24: for every byte count n, _get_readable_size(n) names the unit of
\* the tier k of n and shows, with two decimals, the number nearest to
\* n / 1024^k; 0 gives '0.00 B', 1023 '1023.00 B', 1024 '1.00 KB' and
\* 10240 '10.00 KB'.
C24_SizeTiers ==
  /\ (last.op = "_get_readable_size")
       => LET v == last.size
              t == last.text
              k == Tier(v)
          IN /\ t.unit = UnitNames[k + 1]
             /\ t.decimals = 2
             /\ IF v.exp - k >= 0
                  THEN t.digits = 100 * v.num /\ t.scale = v.exp - k
                  ELSE /\ t.scale = 0
                       /\ 2 * (1024 * t.digits - 100 * v.num) <= 1024
                       /\ 2 * (100 * v.num - 1024 * t.digits) <= 1024
  /\ _get_readable_size(Size(0, 0)) = Text(0, 0, 2, "B")
  /\ _get_readable_size(Size(1023, 0)) = Text(102300, 0, 2, "B")
  /\ _get_readable_size(Size(1024, 0)) = Text(100, 0, 2, "KB")
  /\ _get_readable_size(Size(10240, 0)) = Text(1000, 0, 2, "KB")

\* C24 witness: a count of 1024^6 bytes was shown as '1024.00 PB'.
C24_Witness ==
  /\ last.op = "_get_readable_size"
  /\ last.size = Size(1, 6)
  /\ last.text = Text(100, 1, 2, "PB")

====
